---------------------------- MODULE Spec2Model ----------------------------
(***************************************************************************)
(* State-machine model of the educational agent: the tool contract and     *)
(* registry (src/tools/base.py), the three tools (src/tools/*.py), the     *)
(* shared mistake memory, and the agent loop with its conversation         *)
(* (src/agent/agent.py).                                                   *)
(*                                                                         *)
(* Text is modelled as a sequence of tokens; the tokens " " and "\n" are   *)
(* the whitespace str.strip() removes, every other token is opaque.        *)
(***************************************************************************)
EXTENDS Integers, Sequences, FiniteSets, TLC

VARIABLES
    messages,            \* AgentConversation._messages
    has_primary_goal,    \* AgentConversation._has_primary_goal
    tools,               \* ToolRegistry._tools (insertion-ordered dict)
    memory,              \* _MISTAKE_MEMORY
    pc,                  \* position of the running ask: idle/loop/awaiting/dispatch
    max_turns,           \* max_turns of the running ask
    turn,                \* iterations of `for _ in range(max_turns)` begun
    request,             \* the request in flight / last sent to the backend
    response,            \* content blocks of the last backend response
    tool_uses,           \* tool_uses of the iteration being dispatched
    tool_result_blocks,  \* tool_result_blocks built so far
    outcome,             \* how the last ask ended (return value or exception)
    last,                \* the last registry dispatch: what was asked, what came back
    history              \* call log: register calls, asks begun, requests sent

vars == <<messages, has_primary_goal, tools, memory, pc, max_turns, turn,
          request, response, tool_uses, tool_result_blocks, outcome, last,
          history>>

(***************************************************************************)
(* Bounds of the model.                                                    *)
(***************************************************************************)
MaxAsks == 2          \* ask calls on one conversation
MaxTurnsArg == 2      \* largest max_turns argument passed to ask
MaxRequests == 3      \* backend requests in one behaviour
MaxRegisters == 2     \* register calls after the registry's construction
MaxStore == 2         \* records in the mistake memory

(***************************************************************************)
(* Text                                                                    *)
(***************************************************************************)
Whitespace == {" ", "\n"}

RECURSIVE LStrip(_)
LStrip(s) == IF s # <<>> /\ Head(s) \in Whitespace THEN LStrip(Tail(s)) ELSE s

RECURSIVE RStrip(_)
RStrip(s) ==
    IF s # <<>> /\ s[Len(s)] \in Whitespace
    THEN RStrip(SubSeq(s, 1, Len(s) - 1))
    ELSE s

\* str.strip()
Strip(s) == RStrip(LStrip(s))

\* sep.join(parts)
RECURSIVE Join(_, _)
Join(sep, parts) ==
    IF parts = <<>> THEN <<>>
    ELSE IF Len(parts) = 1 THEN parts[1]
    ELSE parts[1] \o sep \o Join(sep, Tail(parts))

\* str.lower() on the topic strings of the model
Lower(s) == CASE s = "SER" -> "ser" [] s = "Por" -> "por" [] OTHER -> s

\* [f(x) for x in s if p(x)] is spelled with SelectSeq and a map
Map(f(_), s) == [i \in 1..Len(s) |-> f(s[i])]

(***************************************************************************)
(* JSON-like argument values and payloads                                  *)
(***************************************************************************)
StrV(s) == [k |-> "str", s |-> s]
IntV(n) == [k |-> "int", n |-> n]
NoneV == [k |-> "none"]

\* a mapping payload (JSON object) and a non-mapping payload (raw text)
MapArgs(f) == [kind |-> "map", fields |-> f]
RawArgs(t) == [kind |-> "raw", text |-> t]
EmptyArgs == MapArgs(<<>>)

\* Python truthiness of a payload: `x or {}` keeps x only when truthy
Truthy(a) ==
    IF a.kind = "map" THEN DOMAIN a.fields # {} ELSE a.text # <<>>

OrEmpty(a) == IF Truthy(a) THEN a ELSE EmptyArgs

Has(a, f) == f \in DOMAIN a.fields

\* decimal strings pydantic's lax mode reads as integers
NumericStrings == {"3", "0"}
StrToInt(s) == CASE s = "3" -> 3 [] s = "0" -> 0 [] OTHER -> -1


(***************************************************************************)
(* Tools.  A tool object carries its name, its description and the class   *)
(* it is an instance of (kind), which fixes args_schema and run.           *)
(***************************************************************************)
ToolObj(n, d, k) == [name |-> n, description |-> d, kind |-> k]

BasicUserInfoTool == ToolObj("basic_user_info", "Retrieve stored learner details", "basic_user_info")
MistakesStoreTool == ToolObj("mistakes_store", "Log a repeated learner mistake", "mistakes_store")
MistakesSearchTool == ToolObj("mistakes_search", "Search for similar concepts", "mistakes_search")
\* a Tool subclass with an empty schema whose run raises
FaultyTool == ToolObj("faulty", "A tool whose body raises", "raises")

NoTool == ToolObj("", "", "none")

MistakeRecord(topic, detail) == [topic |-> topic, detail |-> detail]

\* ---- pydantic validation, field by field (errors are listed in field order)
RequiredStrField(a, f) ==
    IF ~Has(a, f) THEN <<f, ": Field required">>
    ELSE IF a.fields[f].k # "str" THEN <<f, ": Input should be a valid string">>
    ELSE <<>>

OptionalStrField(a, f) ==
    IF ~Has(a, f) \/ a.fields[f].k \in {"str", "none"} THEN <<>>
    ELSE <<f, ": Input should be a valid string">>

\* the integer a value is read as in lax mode, or no integer at all
IsIntLike(v) == v.k = "int" \/ (v.k = "str" /\ v.s \in NumericStrings)
AsInt(v) == IF v.k = "int" THEN v.n ELSE StrToInt(v.s)

LimitGe == 1
LimitLe == 20
LimitDefault == 5

\* a variant that checks the lower bound only
BoundedIntFieldNoUpper(a, f) ==
    IF ~Has(a, f) THEN <<>>
    ELSE IF ~IsIntLike(a.fields[f]) THEN <<f, ": Input should be a valid integer">>
    ELSE IF AsInt(a.fields[f]) < LimitGe
         THEN <<f, ": Input should be greater than or equal to 1">>
    ELSE <<>>

BoundedIntField(a, f) ==
    IF ~Has(a, f) THEN <<>>
    ELSE IF ~IsIntLike(a.fields[f]) THEN <<f, ": Input should be a valid integer">>
    ELSE IF AsInt(a.fields[f]) < LimitGe
         THEN <<f, ": Input should be greater than or equal to 1">>
    ELSE IF AsInt(a.fields[f]) > LimitLe
         THEN <<f, ": Input should be less than or equal to 20">>
    ELSE <<>>

NotADict == <<"Input should be a valid dictionary or instance of the model">>

\* the errors args_schema.model_validate(arguments) reports; <<>> when valid
MistakeStoreArgsErrors(a) ==
    IF a.kind # "map" THEN NotADict
    ELSE RequiredStrField(a, "topic") \o RequiredStrField(a, "detail")

MistakeSearchArgsErrors(a) ==
    IF a.kind # "map" THEN NotADict
    ELSE OptionalStrField(a, "topic") \o BoundedIntField(a, "limit")

NoFieldArgsErrors(a) == IF a.kind # "map" THEN NotADict ELSE <<>>

SchemaErrors(tool, a) ==
    CASE tool.kind = "mistakes_store" -> MistakeStoreArgsErrors(a)
      [] tool.kind = "mistakes_search" -> MistakeSearchArgsErrors(a)
      [] OTHER -> NoFieldArgsErrors(a)

\* parsed.model_dump(): declared fields only, defaults filled in, values coerced
ModelDump(tool, a) ==
    CASE tool.kind = "mistakes_store" ->
            [topic |-> a.fields["topic"].s, detail |-> a.fields["detail"].s]
      [] tool.kind = "mistakes_search" ->
            [topic |-> IF Has(a, "topic") THEN a.fields["topic"] ELSE NoneV,
             limit |-> IF Has(a, "limit") THEN AsInt(a.fields["limit"])
                       ELSE LimitDefault]
      [] OTHER -> <<>>

\* ---- tool bodies: [raised, value, memory]
StrResult(t, mem) == [raised |-> FALSE, isStr |-> TRUE, value |-> t, memory |-> mem]

\* a variant that skips a record the memory already holds
MistakesStoreRunDedup(kw, mem) ==
    [raised |-> FALSE, isStr |-> TRUE,
     value |-> <<"Stored mistake for topic '", kw.topic, "'.">>,
     memory |-> IF \E i \in 1..Len(mem) : mem[i] = MistakeRecord(kw.topic, kw.detail)
                THEN mem ELSE Append(mem, MistakeRecord(kw.topic, kw.detail))]

MistakesStoreRun(kw, mem) ==
    [raised |-> FALSE, isStr |-> TRUE,
     value |-> <<"Stored mistake for topic '", kw.topic, "'.">>,
     memory |-> Append(mem, MistakeRecord(kw.topic, kw.detail))]

SummaryLine(record) == <<"- ", record.topic, ": ", record.detail>>

MistakesSearchRun(kw, mem) ==
    LET filter == kw.topic.k = "str" /\ kw.topic.s # ""
        Match(m) == Lower(m.topic) = Lower(kw.topic.s)
        matches == IF filter THEN SelectSeq(mem, Match) ELSE mem
        taken == SubSeq(matches, 1, IF kw.limit < Len(matches) THEN kw.limit ELSE Len(matches))
        summary_lines == Map(SummaryLine, taken)
    IN  IF summary_lines = <<>>
        THEN StrResult(<<"No mistakes found.">>, mem)
        ELSE StrResult(Join(<<"\n">>, summary_lines), mem)

BasicUserInfoRun(kw, mem) ==
    [raised |-> FALSE, isStr |-> FALSE, value |-> <<"profile">>, memory |-> mem]

FaultyRun(kw, mem) ==
    [raised |-> TRUE, isStr |-> TRUE, value |-> <<"boom">>, memory |-> mem]

ToolRun(tool, kw, mem) ==
    CASE tool.kind = "mistakes_store" -> MistakesStoreRun(kw, mem)
      [] tool.kind = "mistakes_search" -> MistakesSearchRun(kw, mem)
      [] tool.kind = "basic_user_info" -> BasicUserInfoRun(kw, mem)
      [] OTHER -> FaultyRun(kw, mem)

\* json.dumps of the learner profile
JsonDumps(v) == <<"{\"name\": \"Alicia\", ...}">>

(***************************************************************************)
(* Tool.invoke and the registry.  A call's result is                       *)
(* [exc, value, memory, ran, tool]: the exception raised ("none" when it   *)
(* returned), the returned text or the exception's message, the memory     *)
(* afterwards, whether the tool body ran, and the tool dispatched to.      *)
(***************************************************************************)
Raised(e, msg, mem, ran, tool) ==
    [exc |-> e, value |-> msg, memory |-> mem, ran |-> ran, tool |-> tool]

Returned(v, mem, tool) ==
    [exc |-> "none", value |-> v, memory |-> mem, ran |-> TRUE, tool |-> tool]

ToolInvoke(tool, a, mem) ==
    LET errors == SchemaErrors(tool, a) IN
    IF errors # <<>>
    THEN Raised("ToolInvocationError", <<"validation error: ">> \o errors, mem, FALSE, tool)
    ELSE LET r == ToolRun(tool, ModelDump(tool, a), mem) IN
         IF r.raised THEN Raised("ToolBodyError", r.value, r.memory, TRUE, tool)
         ELSE IF r.isStr THEN Returned(r.value, r.memory, tool)
         ELSE Returned(JsonDumps(r.value), r.memory, tool)

\* the registry is a dict in insertion order: a sequence of tools, one per name
Names(reg) == {reg[i].name : i \in 1..Len(reg)}
IndexOf(reg, n) == CHOOSE i \in 1..Len(reg) : reg[i].name = n

\* a variant that keeps the tool first registered under a name
RegistryRegisterKeepFirst(reg, tool) ==
    IF tool.name \in Names(reg) THEN reg ELSE Append(reg, tool)

\* a variant that moves a re-registered name to the end
RegistryRegisterMoveToEnd(reg, tool) ==
    Append(SelectSeq(reg, LAMBDA t : t.name # tool.name), tool)

RegistryRegister(reg, tool) ==
    IF tool.name \in Names(reg)
    THEN [reg EXCEPT ![IndexOf(reg, tool.name)] = tool]
    ELSE Append(reg, tool)

RECURSIVE RegistryInit(_)
RegistryInit(ts) ==
    IF ts = <<>> THEN <<>>
    ELSE RegistryRegister(RegistryInit(SubSeq(ts, 1, Len(ts) - 1)), ts[Len(ts)])

RegistryListTools(reg) ==
    [i \in 1..Len(reg) |-> [name |-> reg[i].name, description |-> reg[i].description]]

\* a variant that reports a missing tool as an invocation error
RegistryInvokeWrongError(reg, n, a, mem) ==
    IF n \notin Names(reg)
    THEN Raised("ToolInvocationError", <<"Tool '", n, "' is not registered.">>, mem, FALSE, NoTool)
    ELSE ToolInvoke(reg[IndexOf(reg, n)], a, mem)

RegistryInvoke(reg, n, a, mem) ==
    IF n \notin Names(reg)
    THEN Raised("ToolNotFoundError", <<"Tool '", n, "' is not registered.">>, mem, FALSE, NoTool)
    ELSE ToolInvoke(reg[IndexOf(reg, n)], a, mem)

\* EducationalAgent._handle_tool_use: only ToolInvocationError is caught
HandleToolUse(reg, tool_use, mem) ==
    LET arguments == OrEmpty(tool_use.input)
        r == RegistryInvoke(reg, tool_use.name, arguments, mem)
    IN  IF r.exc = "ToolInvocationError"
        THEN [r EXCEPT !.exc = "none",
                       !.value = <<"Tool ", tool_use.name, " failed: ">> \o r.value]
        ELSE r


(***************************************************************************)
(* Conversation turns and content blocks                                   *)
(***************************************************************************)
TextBlock(t) == [type |-> "text", text |-> t]
ToolUseBlock(id, n, input) == [type |-> "tool_use", id |-> id, name |-> n, input |-> input]
\* a variant that loses the call id
ToolResultBlockUntagged(id, content) == [type |-> "tool_result", tool_use_id |-> "", content |-> content]

ToolResultBlock(id, content) == [type |-> "tool_result", tool_use_id |-> id, content |-> content]
\* a response block of a type the loop does not know, carrying a text attribute
OtherBlock(t) == [type |-> "thinking", text |-> t]

Turn(role, content) == [role |-> role, content |-> content]

\* a variant that folds a user turn into a preceding user turn
AppendTurnMerging(msgs, t) ==
    IF t.role = "user" /\ msgs[Len(msgs)].role = "user"
    THEN [msgs EXCEPT ![Len(msgs)] = t]
    ELSE Append(msgs, t)

\* a variant that puts the new turn in front
AppendTurnAtFront(msgs, t) == <<t>> \o msgs

\* messages.append(turn)
AppendTurn(msgs, t) == Append(msgs, t)

SYSTEM_PROMPT == <<"You are a language-learning tutor agent.">>
\* USER_WRAPPER.format(goal=user_input)
UserWrapper(goal) ==
    <<"Learning objective:", "\n">> \o goal \o <<"\n", "\n", "Always call the retrieval tools", "\n">>

\* _parse_assistant_content: one assistant block per response block, in order
ParseBlock(block) ==
    CASE block.type = "text" -> TextBlock(block.text)
      [] block.type = "tool_use" ->
            ToolUseBlock(block.id, block.name, OrEmpty(block.input))
      [] OTHER -> TextBlock(block.text)

IsToolUse(block) == block.type = "tool_use"
IsText(block) == block.type = "text"
BlockText(block) == block.text

ParseAssistantContent(content_blocks) ==
    LET assistant_blocks == Map(ParseBlock, content_blocks) IN
    [assistant_blocks |-> assistant_blocks,
     tool_uses |-> SelectSeq(assistant_blocks, IsToolUse)]

\* "\n".join(block["text"] for block in assistant_blocks if block["type"] == "text")
AssistantText(assistant_blocks) ==
    Join(<<"\n">>, Map(BlockText, SelectSeq(assistant_blocks, IsText)))

\* _normalize_content_blocks on a list of dict blocks: the blocks themselves,
\* and for an empty list the fallback text block holding str([])
NormalizeContentBlocks(content) ==
    IF content # <<>> THEN content ELSE <<TextBlock(<<"[]">>)>>

IsNotSystem(message) == message.role # "system"
NormalizeMessage(message) == Turn(message.role, NormalizeContentBlocks(message.content))

RECURSIVE LastSystemPrompt(_)
LastSystemPrompt(msgs) ==
    IF msgs = <<>> THEN <<>>
    ELSE IF msgs[Len(msgs)].role = "system" THEN msgs[Len(msgs)].content
    ELSE LastSystemPrompt(SubSeq(msgs, 1, Len(msgs) - 1))

\* a variant that leaves the system turn in the turn list
PrepareAnthropicMessagesKeepSystem(msgs) ==
    [system_prompt |-> LastSystemPrompt(msgs),
     request_messages |-> Map(NormalizeMessage, msgs)]

\* _prepare_anthropic_messages
PrepareAnthropicMessages(msgs) ==
    [system_prompt |-> LastSystemPrompt(msgs),
     request_messages |-> Map(NormalizeMessage, SelectSeq(msgs, IsNotSystem))]

ToolSchema(tool) == [name |-> tool.name, description |-> tool.description, input_schema |-> tool.kind]
RegistryAsAnthropicTools(reg) == Map(ToolSchema, reg)

\* request_kwargs of one messages.create call
RequestKwargs(msgs, reg) ==
    LET p == PrepareAnthropicMessages(msgs) IN
    [system |-> p.system_prompt, messages |-> p.request_messages,
     tools |-> RegistryAsAnthropicTools(reg)]

NoRequest == [system |-> <<>>, messages |-> <<>>, tools |-> <<>>]

\* how an ask ended
Running == [kind |-> "none", value |-> <<>>]
ReturnValue(t) == [kind |-> "return", value |-> t]
Exception(e, msg) == [kind |-> e, value |-> msg]

NoDispatch ==
    [op |-> "none", name |-> "", input |-> EmptyArgs, tools |-> <<>>, memory |-> <<>>,
     result |-> Raised("none", <<>>, <<>>, FALSE, NoTool)]

Dispatched(op, n, input, reg, mem, r) ==
    [op |-> op, name |-> n, input |-> input, tools |-> reg, memory |-> mem, result |-> r]

\* asked: for every ask begun, the raw input and the position of its user turn;
\* req_at: the number of requests sent before the running (or last) ask began;
\* invoked: the tool requests the running (or last) ask has dispatched
NoHistory ==
    [registered |-> <<>>, registers |-> 0, asks |-> 0, requests |-> 0, ask_at |-> 0,
     asked |-> <<>>, req_at |-> 0, invoked |-> 0]


(***************************************************************************)
(* Inputs of the agent loop: what callers ask and what the backend answers *)
(***************************************************************************)
UserInputs == {<<"por", " ", "para">>, <<"hola">>}
MaxTurnsArgs == 0..MaxTurnsArg

ValidStoreArgs == MapArgs("topic" :> StrV("ser") @@ "detail" :> StrV("d1"))

Responses ==
    { <<>>,
      <<TextBlock(<<" ", "The answer is 4.", " ">>)>>,
      <<TextBlock(<<" ", "\n">>), TextBlock(<<" ">>)>>,
      <<TextBlock(<<"a", "\n">>), OtherBlock(<<"b", "\n">>)>>,
      <<TextBlock(<<"Logging.">>), ToolUseBlock("tu_1", "mistakes_store", ValidStoreArgs)>>,
      <<ToolUseBlock("tu_2", "mistakes_search", MapArgs("topic" :> StrV("SER"))),
        ToolUseBlock("tu_1", "basic_user_info", EmptyArgs)>>,
      <<ToolUseBlock("tu_1", "mistakes_search", MapArgs("limit" :> IntV(21))),
        ToolUseBlock("tu_2", "mistakes_store", MapArgs("topic" :> StrV("por")))>>,
      <<ToolUseBlock("tu_1", "faulty", EmptyArgs),
        ToolUseBlock("tu_2", "mistakes_store", ValidStoreArgs)>>,
      <<ToolUseBlock("tu_1", "echo", MapArgs("text" :> StrV("hi")))>>,
      <<ToolUseBlock("tu_1", "mistakes_store", RawArgs(<<"not a mapping">>))>> }

(***************************************************************************)
(* The agent loop                                                          *)
(***************************************************************************)
\* the registry the agent is constructed with: the tools of build_registry and
\* a tool whose body raises
AgentRegistry ==
    RegistryInit(<<BasicUserInfoTool, MistakesStoreTool, MistakesSearchTool, FaultyTool>>)

\* AgentConversation.__init__ on a fresh agent
Init ==
    /\ messages = <<Turn("system", SYSTEM_PROMPT)>>
    /\ has_primary_goal = FALSE
    /\ tools = AgentRegistry
    /\ memory = <<>>
    /\ pc = "idle"
    /\ max_turns = 0
    /\ turn = 0
    /\ request = NoRequest
    /\ response = <<>>
    /\ tool_uses = <<>>
    /\ tool_result_blocks = <<>>
    /\ outcome = Running
    /\ last = NoDispatch
    /\ history = NoHistory

\* a variant that wraps every input in the goal template
AskContentAlwaysWrapped(has_goal, user_input) == UserWrapper(user_input)

\* the text of the user turn ask appends
AskContent(has_goal, user_input) ==
    IF ~has_goal THEN UserWrapper(user_input) ELSE user_input

\* a variant that goes on counting where the conversation's last call stopped
FirstRoundCarriedOver(earlier) == earlier

\* the iterations `for _ in range(max_turns)` has begun when _run_loop is
\* entered, whatever an earlier call counted
FirstRound(earlier) == 0

\* AgentConversation.ask up to the call of _run_loop
Ask(user_input, mt) ==
    /\ pc = "idle"
    /\ history.asks < MaxAsks
    /\ LET content == AskContent(has_primary_goal, user_input)
       IN  messages' = AppendTurn(messages, Turn("user", <<TextBlock(content)>>))
    /\ has_primary_goal' = TRUE
    /\ pc' = "loop"
    /\ max_turns' = mt
    /\ turn' = FirstRound(turn)
    /\ outcome' = Running
    /\ history' = [history EXCEPT
                      !.asks = @ + 1, !.ask_at = Len(messages) + 1,
                      !.asked = Append(@, [input |-> user_input, at |-> Len(messages) + 1]),
                      !.req_at = history.requests,
                      !.invoked = 0]
    /\ UNCHANGED <<tools, memory, request, response, tool_uses, tool_result_blocks, last>>

\* a variant that allows one iteration more
IterationLeftInclusive(t, mt) == t <= mt

\* `for _ in range(max_turns)` has an iteration left after t of them
IterationLeft(t, mt) == t < mt

\* head of `for _ in range(max_turns)` with iterations left: build and send the request
SendRequest ==
    /\ pc = "loop"
    /\ IterationLeft(turn, max_turns)
    /\ history.requests < MaxRequests
    /\ request' = RequestKwargs(messages, tools)
    /\ turn' = turn + 1
    /\ pc' = "awaiting"
    /\ history' = [history EXCEPT !.requests = @ + 1]
    /\ UNCHANGED <<messages, has_primary_goal, tools, memory, max_turns, response,
                   tool_uses, tool_result_blocks, outcome, last>>

\* head of the for loop with no iteration left: raise AgentLoopError
LoopExceeded ==
    /\ pc = "loop"
    /\ ~IterationLeft(turn, max_turns)
    /\ outcome' = Exception("AgentLoopError", <<"Agent exceeded maximum number of turns">>)
    /\ pc' = "idle"
    /\ UNCHANGED <<messages, has_primary_goal, tools, memory, max_turns, turn, request,
                   response, tool_uses, tool_result_blocks, last, history>>

\* messages.create raises: the exception leaves _run_loop and ask
BackendFails ==
    /\ pc = "awaiting"
    /\ outcome' = Exception("BackendError", <<"connection error">>)
    /\ pc' = "idle"
    /\ UNCHANGED <<messages, has_primary_goal, tools, memory, max_turns, turn, request,
                   response, tool_uses, tool_result_blocks, last, history>>

\* a variant that returns the text as it came
FinalAnswerUntrimmed(assistant_text) == assistant_text

\* the value _run_loop returns when the response carries no tool request
FinalAnswer(assistant_text) == Strip(assistant_text)

\* a variant that gathers the text of every assistant turn of the conversation
AnswerTextOfAllTurns(msgs) ==
    LET IsAssistant(m) == m.role = "assistant"
        TurnText(m) == AssistantText(m.content)
        HasText(t) == t # <<>>
    IN  Join(<<"\n">>, SelectSeq(Map(TurnText, SelectSeq(msgs, IsAssistant)), HasText))

\* assistant_text: the text of assistant_blocks, the content of the turn that
\* was just appended to the conversation
AnswerText(msgs) == AssistantText(msgs[Len(msgs)].content)

\* messages.create returns: parse, append the assistant turn, then either start
\* dispatching its tool requests or return the final answer
ReceiveResponse(content_blocks) ==
    /\ pc = "awaiting"
    /\ response' = content_blocks
    /\ LET parsed == ParseAssistantContent(content_blocks) IN
       /\ messages' = AppendTurn(messages, Turn("assistant", parsed.assistant_blocks))
       /\ IF parsed.tool_uses # <<>>
          THEN /\ tool_uses' = parsed.tool_uses
               /\ pc' = "dispatch"
               /\ outcome' = outcome
          ELSE /\ tool_uses' = <<>>
               /\ pc' = "idle"
               /\ outcome' = ReturnValue(FinalAnswer(AnswerText(messages')))
    /\ tool_result_blocks' = <<>>
    /\ UNCHANGED <<has_primary_goal, tools, memory, max_turns, turn, request, last, history>>

\* a variant that answers each request in a turn of its own
ToolResultTurnPerBlock(msgs, blocks) ==
    msgs \o [i \in 1..Len(blocks) |-> Turn("user", <<blocks[i]>>)]

\* messages.append({"role": "user", "content": tool_result_blocks})
AppendToolResults(msgs, blocks) == AppendTurn(msgs, Turn("user", blocks))

\* a variant that takes the requests from the last one backwards
NextToolUseReversed(uses, done) == uses[Len(uses) - done]

\* the request `for tool_use in tool_uses` hands out after `done` iterations
NextToolUse(uses, done) == uses[done + 1]

\* one iteration of `for tool_use in tool_uses`; after the last one the results
\* are appended and the for loop continues. An exception _handle_tool_use does
\* not catch leaves _run_loop and ask.
DispatchTool ==
    /\ pc = "dispatch"
    /\ LET tool_use == NextToolUse(tool_uses, Len(tool_result_blocks))
           r == HandleToolUse(tools, tool_use, memory)
           blocks == Append(tool_result_blocks, ToolResultBlock(tool_use.id, r.value))
       IN  /\ memory' = r.memory
           /\ last' = Dispatched("handle", tool_use.name, tool_use.input, tools, memory, r)
           /\ IF r.exc # "none"
              THEN /\ outcome' = Exception(r.exc, r.value)
                   /\ pc' = "idle"
                   /\ tool_uses' = <<>>
                   /\ tool_result_blocks' = <<>>
                   /\ messages' = messages
              ELSE IF Len(blocks) = Len(tool_uses)
              THEN /\ messages' = AppendToolResults(messages, blocks)
                   /\ pc' = "loop"
                   /\ tool_uses' = <<>>
                   /\ tool_result_blocks' = <<>>
                   /\ outcome' = outcome
              ELSE /\ tool_result_blocks' = blocks
                   /\ UNCHANGED <<messages, pc, tool_uses, outcome>>
    /\ history' = [history EXCEPT !.invoked = @ + 1]
    /\ UNCHANGED <<has_primary_goal, tools, max_turns, turn, request, response>>

Next ==
    \/ \E user_input \in UserInputs, mt \in MaxTurnsArgs : Ask(user_input, mt)
    \/ SendRequest
    \/ LoopExceeded
    \/ BackendFails
    \/ \E content_blocks \in Responses : ReceiveResponse(content_blocks)
    \/ DispatchTool

Spec == Init /\ [][Next]_vars

\* an ask whose max_turns requests all fit into the requests of one behaviour
AskWithinBound(user_input, mt) ==
    /\ history.requests + mt <= MaxRequests
    /\ Ask(user_input, mt)

\* the steps of a running call: the backend answers or fails, a tool
\* invocation returns or raises, the loop goes on
LoopProgress ==
    \/ SendRequest
    \/ LoopExceeded
    \/ BackendFails
    \/ \E content_blocks \in Responses : ReceiveResponse(content_blocks)
    \/ DispatchTool

NextLive ==
    \/ \E mt \in MaxTurnsArgs : AskWithinBound(<<"hola">>, mt)
    \/ LoopProgress

\* the loop under the condition that every request is answered (or fails)
\* and every tool invocation returns or raises
SpecLive == Init /\ [][NextLive]_vars /\ WF_vars(LoopProgress)


(***************************************************************************)
(* The registry and the tools called directly (no agent loop)              *)
(***************************************************************************)
\* other tools registered under the names of the standard ones
SearchToolV2 == ToolObj("mistakes_search", "Search, second version", "basic_user_info")
StoreToolV2 == ToolObj("mistakes_store", "Store, second version", "raises")

ToolPool ==
    {BasicUserInfoTool, MistakesStoreTool, MistakesSearchTool, FaultyTool,
     SearchToolV2, StoreToolV2}

\* the tool lists ToolRegistry is constructed with
InitialToolLists ==
    { <<>>,
      <<BasicUserInfoTool, MistakesStoreTool, MistakesSearchTool>>,
      <<MistakesSearchTool, MistakesStoreTool, SearchToolV2>> }

ToolNames == {"basic_user_info", "mistakes_store", "mistakes_search", "faulty", "echo"}

\* argument payloads: for each tool name the mappings over its schema's fields
\* (any subset present, values of the right and of wrong types, inside and
\* outside the bounds), a mapping with a field the schema lacks, and raw text
FieldsOf(n) ==
    CASE n = "mistakes_store" -> {"topic", "detail"}
      [] n = "mistakes_search" -> {"topic", "limit"}
      [] OTHER -> {}
FieldValues(f) ==
    CASE f = "topic" -> {StrV("ser"), StrV("SER"), StrV(""), IntV(7), NoneV}
      [] f = "detail" -> {StrV("d1"), IntV(7)}
      [] OTHER -> {IntV(0), IntV(1), IntV(2), IntV(20), IntV(21), StrV("3"), StrV("x"), NoneV}
AllFieldValues == UNION {FieldValues(f) : f \in {"topic", "detail", "limit"}}
MapsOver(D) == {m \in [D -> AllFieldValues] : \A f \in D : m[f] \in FieldValues(f)}

PayloadsFor(n) ==
    {MapArgs(m) : m \in UNION {MapsOver(D) : D \in SUBSET FieldsOf(n)}}
        \cup {MapArgs("text" :> StrV("hi")), ValidStoreArgs,
              RawArgs(<<"not a mapping">>), RawArgs(<<>>)}

FewPayloads == {EmptyArgs, ValidStoreArgs}

InitRegistry ==
    /\ messages = <<Turn("system", SYSTEM_PROMPT)>>
    /\ has_primary_goal = FALSE
    /\ \E ts \in InitialToolLists :
          /\ tools = RegistryInit(ts)
          /\ history = [NoHistory EXCEPT !.registered = ts]
    /\ memory = <<>>
    /\ pc = "idle"
    /\ max_turns = 0
    /\ turn = 0
    /\ request = NoRequest
    /\ response = <<>>
    /\ tool_uses = <<>>
    /\ tool_result_blocks = <<>>
    /\ outcome = Running
    /\ last = NoDispatch

\* ToolRegistry.register
Register(tool) ==
    /\ history.registers < MaxRegisters
    /\ tools' = RegistryRegister(tools, tool)
    /\ history' = [history EXCEPT !.registered = Append(@, tool), !.registers = @ + 1]
    /\ UNCHANGED <<messages, has_primary_goal, memory, pc, max_turns, turn, request,
                   response, tool_uses, tool_result_blocks, outcome, last>>

\* ToolRegistry.invoke called directly
Invoke(n, a) ==
    LET r == RegistryInvoke(tools, n, a, memory) IN
    /\ Len(r.memory) <= MaxStore
    /\ memory' = r.memory
    /\ last' = Dispatched("invoke", n, a, tools, memory, r)
    /\ UNCHANGED <<messages, has_primary_goal, tools, pc, max_turns, turn, request,
                   response, tool_uses, tool_result_blocks, outcome, history>>

\* EducationalAgent._handle_tool_use called on one tool request
HandleCall(tool_use) ==
    LET r == HandleToolUse(tools, tool_use, memory) IN
    /\ Len(r.memory) <= MaxStore
    /\ memory' = r.memory
    /\ last' = Dispatched("handle", tool_use.name, tool_use.input, tools, memory, r)
    /\ UNCHANGED <<messages, has_primary_goal, tools, pc, max_turns, turn, request,
                   response, tool_uses, tool_result_blocks, outcome, history>>

\* main.build_registry; the UserNameTool it names is read as the one tool class
\* src/tools/user_name.py defines, BasicUserInfoTool
BuildRegistry == RegistryInit(<<BasicUserInfoTool, MistakesStoreTool, MistakesSearchTool>>)

EchoPayload == MapArgs("text" :> StrV("tool called correctly"))

\* main.validate_echo_tool(registry): the command ends with the printed result
\* or with the exception registry.invoke raises
ValidateEchoTool ==
    LET r == RegistryInvoke(tools, "echo", EchoPayload, memory) IN
    /\ memory' = r.memory
    /\ last' = Dispatched("validate", "echo", EchoPayload, tools, memory, r)
    /\ outcome' = IF r.exc = "none" THEN ReturnValue(r.value) ELSE Exception(r.exc, r.value)
    /\ UNCHANGED <<messages, has_primary_goal, tools, pc, max_turns, turn, request,
                   response, tool_uses, tool_result_blocks, history>>

NextRegistry ==
    \/ \E tool \in ToolPool : Register(tool)
    \/ \E n \in ToolNames, a \in FewPayloads : Invoke(n, a)
    \/ ValidateEchoTool

SpecRegistry == InitRegistry /\ [][NextRegistry]_vars

InitTools ==
    /\ Init

NextTools ==
    \/ \E n \in ToolNames : \E a \in PayloadsFor(n) : Invoke(n, a)
    \/ \E n \in ToolNames : \E a \in PayloadsFor(n) : HandleCall(ToolUseBlock("tu_1", n, a))

SpecTools == InitTools /\ [][NextTools]_vars


(***************************************************************************)
(* Properties of the agent loop (checked under Spec)                       *)
(***************************************************************************)
Max(S) == CHOOSE x \in S : \A y \in S : y <= x

\* position of the conversation's last assistant turn, 0 when there is none
LastAssistantIndex ==
    LET S == {i \in 1..Len(messages) : messages[i].role = "assistant"} IN
    IF S = {} THEN 0 ELSE Max(S)

\* the tool requests of a block list, in order
RequestsIn(blocks) == SelectSeq(blocks, LAMBDA b : b.type = "tool_use")

\* the turn is a user turn answering exactly the requests reqs, in their order
AnswersInOrder(t, reqs) ==
    /\ t.role = "user"
    /\ Len(t.content) = Len(reqs)
    /\ \A k \in 1..Len(reqs) :
          /\ t.content[k].type = "tool_result"
          /\ t.content[k].tool_use_id = reqs[k].id

RegisteredNonRaising(reqs) ==
    \A k \in 1..Len(reqs) :
        \E j \in 1..Len(tools) : tools[j].name = reqs[k].name /\ tools[j].kind # "raises"

\* C1: when the last backend response carried N >= 1 tool_use blocks, all naming
\* registered tools whose bodies do not raise, then once their dispatch is over
\* the assistant turn is followed by one user turn with exactly N tool_result
\* blocks whose tool_use_id equal the response's ids position by position; that
\* turn is the conversation's last turn when the loop is at its next request,
\* and the request sent carries it.
C1_ResultsBatchedInOneUserTurn ==
    LET i == LastAssistantIndex
        reqs == RequestsIn(response)
    IN  (i > 0 /\ Len(reqs) >= 1 /\ pc # "dispatch" /\ RegisteredNonRaising(reqs)) =>
            /\ Len(messages) >= i + 1
            /\ AnswersInOrder(messages[i + 1], reqs)
            /\ (pc \in {"loop", "awaiting"} /\ i > history.ask_at) => Len(messages) = i + 1
            /\ (pc = "awaiting" /\ i > history.ask_at) =>
                   request.messages[Len(request.messages)] = messages[i + 1]

C1_Witness ==
    /\ pc = "awaiting"
    /\ turn = 2
    /\ Len(RequestsIn(response)) = 2
    /\ RegisteredNonRaising(RequestsIn(response))
    /\ response[1].id = "tu_2"
    /\ Len(messages[Len(messages)].content) = 2

\* C2 as stated: at the loop's next model request the assistant turn's N tool
\* requests have been answered by N appended turns, the k-th tagged with the
\* k-th request's call_id.
C2_Original_NTurns ==
    LET i == LastAssistantIndex
        reqs == IF i > 0 THEN RequestsIn(messages[i].content) ELSE <<>>
    IN  (pc = "loop" /\ turn > 0) =>
            /\ Len(messages) = i + Len(reqs)
            /\ \A k \in 1..Len(reqs) :
                  /\ messages[i + k].role = "user"
                  /\ \E b \in 1..Len(messages[i + k].content) :
                        messages[i + k].content[b].tool_use_id = reqs[k].id

\* C2 amended: whenever the loop comes back to its head after a round, the last
\* assistant turn's N >= 1 tool requests have been answered by exactly one
\* appended turn, which holds N tool_result blocks, the k-th tagged with the
\* k-th request's call_id.
C2_OneTurnWithNResults ==
    LET i == LastAssistantIndex
        reqs == IF i > 0 THEN RequestsIn(messages[i].content) ELSE <<>>
    IN  (pc = "loop" /\ turn > 0) =>
            /\ i > history.ask_at
            /\ Len(reqs) >= 1
            /\ Len(messages) = i + 1
            /\ AnswersInOrder(messages[i + 1], reqs)

C2_Witness ==
    /\ pc = "loop"
    /\ turn = 1
    /\ Len(messages) = 4
    /\ Len(messages[4].content) = 2
    /\ messages[4].content[1].content[1] = "Tool "
    /\ messages[4].content[2].tool_use_id = "tu_2"


\* the text of a block list: the text of its text blocks, separated by "\n"
RECURSIVE TextOf(_)
TextOf(blocks) ==
    IF blocks = <<>> THEN <<>>
    ELSE LET rest == SubSeq(blocks, 1, Len(blocks) - 1)
             b == blocks[Len(blocks)]
         IN  IF b.type # "text" THEN TextOf(rest)
             ELSE IF \E k \in 1..Len(rest) : rest[k].type = "text"
             THEN TextOf(rest) \o <<"\n">> \o b.text
             ELSE b.text

\* t is s without its leading and trailing whitespace
IsTrimOf(t, s) ==
    /\ t # <<>> => (t[1] \notin Whitespace /\ t[Len(t)] \notin Whitespace)
    /\ \E j \in 0..Len(s) :
          /\ j + Len(t) <= Len(s)
          /\ \A k \in 1..Len(t) : s[j + k] = t[k]
          /\ \A k \in 1..Len(s) : (k <= j \/ k > j + Len(t)) => s[k] \in Whitespace

\* the assistant turns the running (or last) ask has appended
AssistantTurnsOfAsk ==
    {i \in 1..Len(messages) : i > history.ask_at /\ messages[i].role = "assistant"}

C3_Returned ==
    outcome.kind = "return" =>
        LET i == LastAssistantIndex IN
        /\ pc = "idle"
        /\ RequestsIn(response) = <<>>
        /\ i = Len(messages)
        /\ Cardinality(AssistantTurnsOfAsk) = turn
        /\ turn <= max_turns
        /\ \A k \in AssistantTurnsOfAsk : k # i => RequestsIn(messages[k].content) # <<>>
        /\ IsTrimOf(outcome.value, TextOf(messages[i].content))

C3_Step ==
    /\ (pc = "awaiting" /\ messages' # messages /\ RequestsIn(response') = <<>>) =>
           (pc' = "idle" /\ outcome'.kind = "return")
    /\ (outcome.kind = "return" /\ outcome'.kind = "return") =>
           (history'.requests = history.requests /\ last' = last /\ memory' = memory
            /\ messages' = messages)

\* C3: a call returns at the first response that carries no tool request, in
\* the step that receives it, however many tool-requesting rounds (fewer than
\* max_turns) came before; the conversation then ends with that assistant
\* turn, no request and no tool invocation follows, and the value returned is
\* the text of the turn's text blocks joined by newline, stripped of leading
\* and trailing whitespace.
C3_ReturnsAtFirstToolFreeResponse == [](C3_Returned) /\ [][C3_Step]_vars

C3_Witness ==
    /\ outcome.kind = "return"
    /\ turn = 2
    /\ outcome.value = <<"a", "\n", "\n", "b">>
    /\ Len(response) = 2

\* every assistant turn of the ask carries at least one tool request, each
\* naming a registered tool, and every request of the ask was answered
EveryResponseRequestsTools ==
    /\ Cardinality(AssistantTurnsOfAsk) = turn
    /\ \A i \in AssistantTurnsOfAsk :
          LET reqs == RequestsIn(messages[i].content) IN
          /\ reqs # <<>>
          /\ \A k \in 1..Len(reqs) : \E j \in 1..Len(tools) : tools[j].name = reqs[k].name

\* C4 as stated: a call with max_turns = M >= 1 in which every response
\* carries at least one tool request ends with AgentLoopError after exactly M
\* backend requests.
C4_Original_ExactlyMaxTurns ==
    (pc = "idle" /\ outcome.kind # "none" /\ max_turns >= 1 /\ EveryResponseRequestsTools) =>
        (outcome.kind = "AgentLoopError" /\ turn = max_turns)

\* the text "Tool <name> failed: <message>"
IsFailureText(t, n) ==
    Len(t) >= 4 /\ t[1] = "Tool " /\ t[2] = n /\ t[3] = " failed: "

\* C5 as stated, for the execution fault: when _handle_tool_use has run a tool
\* whose body raised, no exception leaves it, the result is the failure text
\* and the call goes on.
C5_Original_FaultBecomesText ==
    (last.op = "handle" /\ last.result.ran /\ last.result.tool.kind = "raises") =>
        /\ last.result.exc = "none"
        /\ IsFailureText(last.result.value, last.name)
        /\ outcome.kind \in {"none", "return", "AgentLoopError"}

\* C9: every step leaves the earlier turn sequence as a prefix of the new one.
C9_AppendOnly ==
    [][/\ Len(messages') >= Len(messages)
       /\ \A i \in 1..Len(messages) : messages'[i] = messages[i]]_vars

\* an ask that ended in an exception mid-dispatch, followed by a later ask
C9_Witness ==
    /\ history.asks = 2
    /\ pc = "idle"
    /\ outcome.kind = "AgentLoopError"
    /\ \E i \in 2..(Len(messages) - 1) :
          /\ messages[i].role = "assistant"
          /\ RequestsIn(messages[i].content) # <<>>
          /\ messages[i + 1].content[1].type = "text"

\* C10 as stated: the turn list of the request in flight is the conversation
\* without its system turn, turn for turn.
C10_Original_RequestIsConversation ==
    pc = "awaiting" =>
        /\ Len(request.messages) = Len(messages) - 1
        /\ \A i \in 1..Len(request.messages) : request.messages[i] = messages[i + 1]

\* the conversation's system turn content: the content of its turn at position 0
SystemTurnContent == messages[1].content

\* C11: every request sent to the backend (the one in flight and, once it is
\* answered, the last one sent) has no turn with role system in its turn list
\* and carries the content of the conversation's system turn, which is not
\* empty, as its system field; the sending step builds it from the
\* conversation as it is at that moment.
C11_SystemSentApart ==
    /\ [](history.requests > 0 =>
            /\ \A i \in 1..Len(request.messages) : request.messages[i].role # "system"
            /\ request.system = SystemTurnContent
            /\ request.system # <<>>)
    /\ [][history'.requests # history.requests =>
            /\ request'.system = messages[1].content
            /\ Len(request'.messages) = Len(messages) - 1
            /\ \A i \in 1..Len(request'.messages) : request'.messages[i].role = messages[i + 1].role]_vars

\* a request of a second ask, sent after tool results of the first
C11_Witness ==
    /\ pc = "awaiting"
    /\ history.asks = 2
    /\ history.requests = 3
    /\ Len(request.messages) = 5
    /\ request.messages[3].content[1].type = "tool_result"
    /\ request.system = SYSTEM_PROMPT

\* the goal template around an input: a fixed text before it and after it
IsGoalTemplateAround(t, input) ==
    /\ Len(t) = Len(input) + 6
    /\ SubSeq(t, 1, 2) = <<"Learning objective:", "\n">>
    /\ SubSeq(t, 3, Len(input) + 2) = input
    /\ SubSeq(t, Len(input) + 3, Len(t)) = <<"\n", "\n", "Always call the retrieval tools", "\n">>

\* the user turns that hold text, which are the turns ask appends
AskTurns ==
    {i \in 1..Len(messages) :
        messages[i].role = "user" /\ messages[i].content[1].type = "text"}

\* C12: the user turn of the first ask of a conversation holds the goal
\* template around the raw input, the user turn of every later ask holds the
\* raw input alone, whatever way the earlier asks ended; every ask appended
\* its turn, and no other text user turn exists.
C12_OnlyFirstAskWrapped ==
    /\ Len(history.asked) = history.asks
    /\ AskTurns = {history.asked[k].at : k \in 1..Len(history.asked)}
    /\ \A k \in 1..Len(history.asked) :
          LET t == messages[history.asked[k].at] IN
          /\ t.role = "user"
          /\ Len(t.content) = 1
          /\ t.content[1].type = "text"
          /\ IF k = 1
             THEN IsGoalTemplateAround(t.content[1].text, history.asked[k].input)
             ELSE t.content[1].text = history.asked[k].input
    /\ has_primary_goal = (history.asks > 0)

\* a second ask on a conversation whose first ask ended in an exception
\* while its tool requests were dispatched
C12_Witness ==
    /\ history.asks = 2
    /\ Len(messages) = 4
    /\ messages[3].role = "assistant"
    /\ RequestsIn(messages[3].content) # <<>>
    /\ messages[4] = Turn("user", <<TextBlock(<<"hola">>)>>)
    /\ history.asked[1].input = <<"hola">>

\* C13: the conversation holds exactly one turn with role system, and it is
\* the turn at position 0 with the instruction template as content; the turn
\* at position 1, once there is one, is the user turn of the first ask; no
\* step appends a system turn.
C13_OneSystemTurnFirst ==
    /\ [](/\ Len(messages) >= 1
          /\ messages[1].role = "system"
          /\ messages[1].content = SYSTEM_PROMPT
          /\ \A i \in 2..Len(messages) : messages[i].role # "system"
          /\ Len(messages) >= 2 =>
                /\ history.asks >= 1
                /\ messages[2].role = "user"
                /\ history.asked[1].at = 2
                /\ IsGoalTemplateAround(messages[2].content[1].text, history.asked[1].input))
    /\ [][\A i \in (Len(messages) + 1)..Len(messages') : messages'[i].role # "system"]_vars

\* a conversation after two asks, the first answered with tool results
C13_Witness ==
    /\ history.asks = 2
    /\ pc = "idle"
    /\ outcome.kind = "return"
    /\ Len(messages) = 7
    /\ Cardinality({i \in 1..Len(messages) : messages[i].role = "system"}) = 1

\* while requests are dispatched the conversation ends with their assistant
\* turn and fewer results than requests have been collected
C14_Dispatching ==
    pc = "dispatch" =>
        /\ LastAssistantIndex = Len(messages)
        /\ tool_uses = RequestsIn(messages[Len(messages)].content)
        /\ tool_uses = RequestsIn(Map(ParseBlock, response))
        /\ Len(tool_result_blocks) < Len(tool_uses)

\* a step taken while requests are dispatched invokes exactly the request
\* that follows the ones already answered, and sends nothing to the backend
C14_DispatchStep ==
    pc = "dispatch" =>
        LET reqs == RequestsIn(messages[Len(messages)].content)
            k == Len(tool_result_blocks) + 1
        IN  /\ last'.op = "handle"
            /\ last'.name = reqs[k].name
            /\ last'.input = reqs[k].input
            /\ history'.requests = history.requests
            /\ request' = request
            /\ last'.result.exc = "none" =>
                  IF k < Len(reqs)
                  THEN /\ pc' = "dispatch"
                       /\ messages' = messages
                       /\ Len(tool_result_blocks') = k
                       /\ SubSeq(tool_result_blocks', 1, k - 1) = tool_result_blocks
                       /\ tool_result_blocks'[k].tool_use_id = reqs[k].id
                       /\ tool_result_blocks'[k].content = last'.result.value
                  ELSE /\ pc' = "loop"
                       /\ Len(messages') = Len(messages) + 1
                       /\ AnswersInOrder(messages'[Len(messages')], reqs)
                       /\ messages'[Len(messages')].content[k].content = last'.result.value
            /\ last'.result.exc # "none" => pc' = "idle"

\* a step that sends a request is taken with no request of the call pending:
\* the call's last assistant turn, if any, has all its requests answered
C14_RequestStep ==
    history'.requests # history.requests =>
        /\ pc = "loop"
        /\ tool_uses = <<>>
        /\ tool_result_blocks = <<>>
        /\ last' = last
        /\ turn > 0 =>
              LET i == LastAssistantIndex IN
              /\ i > history.ask_at
              /\ Len(messages) = i + 1
              /\ AnswersInOrder(messages[i + 1], RequestsIn(messages[i].content))

\* C14: the tool requests of an assistant turn are invoked one per step, in
\* the order of the response, each invocation complete (its result collected)
\* before the next one begins, and no request goes to the backend until the
\* call has collected the result of every one of them; a step that does not
\* dispatch invokes no tool.
C14_SequentialInOrder ==
    /\ [](C14_Dispatching)
    /\ [][C14_DispatchStep /\ C14_RequestStep /\ (pc # "dispatch" => last' = last)]_vars

\* the first of two requests answered, the second still to be invoked
C14_Witness ==
    /\ pc = "dispatch"
    /\ Len(tool_uses) = 2
    /\ Len(tool_result_blocks) = 1
    /\ last.name = "mistakes_search"
    /\ tool_uses[2].name = "basic_user_info"
    /\ tool_result_blocks[1].tool_use_id = "tu_2"

\* a response without tool request whose blocks hold nothing but whitespace;
\* the response without any content block is one
IsBlankResponse(content_blocks) ==
    \A b \in 1..Len(content_blocks) :
        /\ content_blocks[b].type # "tool_use"
        /\ \A k \in 1..Len(content_blocks[b].text) : content_blocks[b].text[k] \in Whitespace

\* C15: the step that receives a response without tool request and without
\* text other than whitespace (no content block at all included) ends the
\* call with the empty string as return value: no exception is raised, the
\* turn is recorded, and no backend request follows in the call.
C15_BlankResponseReturnsEmpty ==
    /\ [][(pc = "awaiting" /\ messages' # messages /\ IsBlankResponse(response')) =>
             /\ pc' = "idle"
             /\ outcome' = ReturnValue(<<>>)
             /\ messages' = Append(messages, Turn("assistant", messages'[Len(messages')].content))
             /\ history'.requests = history.requests]_vars
    /\ [][(outcome.kind = "return" /\ history'.asks = history.asks) =>
             (history'.requests = history.requests /\ outcome' = outcome)]_vars

\* a whitespace-only answer after a round of tool requests
C15_Witness ==
    /\ pc = "idle"
    /\ outcome = ReturnValue(<<>>)
    /\ turn = 2
    /\ Len(response) = 2
    /\ response[1].text = <<" ", "\n">>
    /\ IsBlankResponse(response)

\* C18 as stated: when _handle_tool_use is given a tool request whose
\* argument payload is not a mapping, the tool body does not run, no result
\* text is produced for it, and the call ends with the error raised to the
\* caller of ask.
C18_Original_MalformedArgumentsPropagate ==
    (last.op = "handle" /\ last.input.kind = "raw" /\ pc # "dispatch") =>
        /\ ~last.result.ran
        /\ last.result.exc # "none"
        /\ outcome.kind \notin {"none", "return", "AgentLoopError"}

\* every assistant turn holding tool requests is directly followed by a user
\* turn that holds a tool_result for each of them, in their order
EveryToolRequestAnswered ==
    \A i \in 1..Len(messages) :
        (messages[i].role = "assistant" /\ RequestsIn(messages[i].content) # <<>>) =>
            /\ i < Len(messages)
            /\ AnswersInOrder(messages[i + 1], RequestsIn(messages[i].content))

\* C21 as stated: whenever an ask has ended, by a return value or by any
\* exception, the conversation holds no unanswered tool request.
C21_Original_NoUnansweredRequestAtEnd ==
    (pc = "idle" /\ outcome.kind # "none") => EveryToolRequestAnswered

\* C22 as stated: in the turn list of every request sent, the first turn is a
\* user turn and no two neighbouring turns have the same role.
C22_Original_RolesAlternate ==
    history.requests > 0 =>
        /\ request.messages[1].role = "user"
        /\ \A i \in 1..(Len(request.messages) - 1) :
              request.messages[i].role # request.messages[i + 1].role

\* the backend requests the running (or last) ask has sent
RequestsOfAsk == history.requests - history.req_at

\* C23: an ask sends at most its own max_turns requests, counted from its
\* beginning whatever the earlier asks of the conversation sent; it sends a
\* request only while it has sent fewer than max_turns, and it ends with
\* AgentLoopError only when it has sent exactly max_turns of them; each
\* request it sends carries every turn the conversation holds, those of the
\* earlier asks included, one request turn per turn after the system turn, in
\* order, with its role and (for a turn with content) its content.
C23_BudgetPerAsk ==
    /\ [](RequestsOfAsk <= max_turns /\ (history.asks > 0 => turn = RequestsOfAsk))
    /\ [][history'.requests # history.requests =>
             /\ RequestsOfAsk < max_turns
             /\ Len(request'.messages) = Len(messages) - 1
             /\ \A i \in 1..Len(request'.messages) :
                   /\ request'.messages[i].role = messages[i + 1].role
                   /\ messages[i + 1].content # <<>> =>
                         request'.messages[i].content = messages[i + 1].content]_vars
    /\ [][(outcome' # outcome /\ outcome'.kind = "AgentLoopError") =>
             RequestsOfAsk = max_turns]_vars
    /\ [][history'.asks # history.asks => (turn' = 0 /\ history'.req_at = history.requests)]_vars

\* a second ask that sends its second request after the first ask had used up
\* its own budget of one
C23_Witness ==
    /\ history.asks = 2
    /\ history.req_at = 1
    /\ pc = "awaiting"
    /\ max_turns = 2
    /\ RequestsOfAsk = 2
    /\ Len(request.messages) = 6
    /\ request.messages[3].role = "user"
    /\ request.messages[4].role = "user"

\* the tokens other than whitespace of the text blocks of a block list
TextTokens(blocks) ==
    UNION {{blocks[b].text[k] : k \in 1..Len(blocks[b].text)} \ Whitespace :
             b \in {x \in 1..Len(blocks) : blocks[x].type = "text"}}

\* the assistant turns that hold text next to tool requests
NarratedRequestTurns ==
    {i \in 1..Len(messages) :
        /\ messages[i].role = "assistant"
        /\ RequestsIn(messages[i].content) # <<>>
        /\ TextTokens(messages[i].content) # {}}

\* C24: the value an ask returns is the trimmed text of the text blocks of
\* the terminating assistant turn (the last turn, without tool request) and
\* holds no text of an earlier assistant turn that carried tool requests; the
\* earlier turns keep their text in the conversation, and every request sent
\* afterwards carries them with it.
C24_AnswerFromTerminatingTurnOnly ==
    /\ [](outcome.kind = "return" =>
            LET i == Len(messages) IN
            /\ messages[i].role = "assistant"
            /\ RequestsIn(messages[i].content) = <<>>
            /\ IsTrimOf(outcome.value, TextOf(messages[i].content))
            /\ \A t \in {outcome.value[k] : k \in 1..Len(outcome.value)} \ Whitespace :
                  t \in TextTokens(messages[i].content)
            /\ \A k \in NarratedRequestTurns :
                  \A t \in TextTokens(messages[k].content) :
                      t \notin TextTokens(messages[i].content) =>
                          t \notin {outcome.value[j] : j \in 1..Len(outcome.value)})
    /\ [][/\ \A k \in NarratedRequestTurns : k <= Len(messages') /\ messages'[k] = messages[k]
          /\ history'.requests # history.requests =>
                \A k \in NarratedRequestTurns : request'.messages[k - 1] = messages[k]]_vars

\* an answer returned after a round whose assistant turn said "Logging." next
\* to its tool request; the request that led to the answer carried that turn
C24_Witness ==
    /\ outcome = ReturnValue(<<"The answer is 4.">>)
    /\ turn = 2
    /\ messages[3].content[1] = TextBlock(<<"Logging.">>)
    /\ 3 \in NarratedRequestTurns
    /\ request.messages[2] = messages[3]

\* the tool requests the backend has made of the running (or last) ask
RECURSIVE RequestsInTurns(_)
RequestsInTurns(S) ==
    IF S = {} THEN 0
    ELSE LET i == CHOOSE y \in S : TRUE
         IN  Len(RequestsIn(messages[i].content)) + RequestsInTurns(S \ {i})

ToolRequestsOfAsk == RequestsInTurns(AssistantTurnsOfAsk)

\* C25: a call that has begun always ends, with a return value or with an
\* exception; at every moment it has sent at most max_turns requests and
\* invoked at most as many tools as the backend requested in its responses,
\* whatever the backend answers.
C25_EveryAskEnds ==
    /\ [](/\ RequestsOfAsk <= max_turns
          /\ Cardinality(AssistantTurnsOfAsk) <= max_turns
          /\ history.invoked <= ToolRequestsOfAsk
          /\ (pc = "idle" /\ history.asks > 0) => outcome.kind # "none")
    /\ (pc # "idle") ~> (pc = "idle" /\ outcome.kind # "none")

\* a call that ended with AgentLoopError after two rounds of tool requests
C25_Witness ==
    /\ pc = "idle"
    /\ outcome.kind = "AgentLoopError"
    /\ max_turns = 2
    /\ RequestsOfAsk = 2
    /\ history.invoked >= 3


(***************************************************************************)
(* Properties of the tools and the registry                                *)
(***************************************************************************)
\* a value a string field accepts, and a value the limit field accepts
IsString(v) == v.k = "str"
LimitAccepted(v) ==
    \/ v.k = "int" /\ v.n >= 1 /\ v.n <= 20
    \/ v.k = "str" /\ v.s = "3"

\* the mapping f breaks the schema of the tool of this kind: a required field
\* is missing, a field has a wrong type, or limit is outside 1..20
ViolatesSchema(kind, f) ==
    CASE kind = "mistakes_store" ->
            \E x \in {"topic", "detail"} : x \notin DOMAIN f \/ ~IsString(f[x])
      [] kind = "mistakes_search" ->
            \/ "topic" \in DOMAIN f /\ ~IsString(f["topic"]) /\ f["topic"] # NoneV
            \/ "limit" \in DOMAIN f /\ ~LimitAccepted(f["limit"])
      [] OTHER -> FALSE

Contains(t, token) == \E k \in 1..Len(t) : t[k] = token

\* the mapping the last call handed to the tool, when it was a mapping
MappingOfLastCall ==
    IF last.op = "handle" THEN OrEmpty(last.input) ELSE last.input

\* C6: when a registered tool is invoked with an argument mapping that breaks
\* its schema, the tool body does not run, the mistake memory is what it was,
\* ToolRegistry.invoke raises ToolInvocationError, and _handle_tool_use
\* returns a text that contains the tool's name.
C6_InvalidArgumentsNeverReachTheBody ==
    \A j \in 1..Len(last.tools) :
        (/\ last.op # "none"
         /\ last.tools[j].name = last.name
         /\ MappingOfLastCall.kind = "map"
         /\ ViolatesSchema(last.tools[j].kind, MappingOfLastCall.fields)) =>
            /\ ~last.result.ran
            /\ last.result.memory = last.memory
            /\ memory = last.memory
            /\ last.op = "invoke" => last.result.exc = "ToolInvocationError"
            /\ last.op = "handle" =>
                   (last.result.exc = "none" /\ Contains(last.result.value, last.name))

C6_Witness ==
    /\ last.op = "handle"
    /\ last.name = "mistakes_search"
    /\ last.input = MapArgs("limit" :> IntV(21))
    /\ Len(memory) = 1
    /\ IsFailureText(last.result.value, "mistakes_search")

\* two topics that are equal when case is ignored
SameIgnoringCase(a, b) ==
    \/ a = b
    \/ {a, b} = {"ser", "SER"}
    \/ {a, b} = {"por", "Por"}

\* the elements of a set of positions as an increasing sequence
RECURSIVE Increasing(_)
Increasing(S) ==
    IF S = {} THEN <<>>
    ELSE LET m == CHOOSE x \in S : \A y \in S : x <= y
         IN  <<m>> \o Increasing(S \ {m})

\* the text of the lines "- topic: detail" of the records at the positions S
LinesAt(mem, S) ==
    Join(<<"\n">>, [k \in 1..Cardinality(S) |->
                      <<"- ", mem[Increasing(S)[k]].topic, ": ", mem[Increasing(S)[k]].detail>>])

\* the last call ran mistakes_search on an argument mapping its schema accepts
SearchRan ==
    /\ last.op # "none"
    /\ last.name = "mistakes_search"
    /\ \E j \in 1..Len(last.tools) :
          last.tools[j].name = last.name /\ last.tools[j].kind = "mistakes_search"
    /\ MappingOfLastCall.kind = "map"
    /\ ~ViolatesSchema("mistakes_search", MappingOfLastCall.fields)

\* the positions of the records the search of the last call is to report: all
\* of them when no topic string was supplied, else those whose topic equals it
\* ignoring case
SearchMatches ==
    LET f == MappingOfLastCall.fields
        mem == last.memory
    IN  IF "topic" \in DOMAIN f /\ f["topic"].k = "str"
        THEN {i \in 1..Len(mem) : SameIgnoringCase(mem[i].topic, f["topic"].s)}
        ELSE 1..Len(mem)

SearchLimit ==
    LET f == MappingOfLastCall.fields IN
    IF "limit" \notin DOMAIN f THEN 5
    ELSE IF f["limit"].k = "int" THEN f["limit"].n ELSE 3

\* C16 as stated: a search with a valid mapping returns the sentinel exactly
\* when no record's topic equals the supplied topic ignoring case (no record
\* at all when none is supplied), and else the lines "- topic: detail" of
\* matching records only, at least one and at most limit of them, in store
\* order.
C16_Original_SearchReportsMatchesOnly ==
    SearchRan =>
        /\ last.result.exc = "none"
        /\ (last.result.value = <<"No mistakes found.">>) = (SearchMatches = {})
        /\ SearchMatches # {} =>
              \E S \in SUBSET SearchMatches :
                  /\ S # {}
                  /\ Cardinality(S) <= SearchLimit
                  /\ last.result.value = LinesAt(last.memory, S)

\* the step is a tool invocation: a dispatch of the loop, or a direct call
InvocationStep ==
    pc = "dispatch" \/ (pc = "idle" /\ pc' = "idle" /\ history' = history)

\* the step invokes the registered mistakes_store tool with a mapping its
\* schema accepts
StoreAccepted ==
    /\ InvocationStep
    /\ last'.name = "mistakes_store"
    /\ \E j \in 1..Len(tools) : tools[j].name = "mistakes_store" /\ tools[j].kind = "mistakes_store"
    /\ LET a == IF last'.op = "handle" THEN OrEmpty(last'.input) ELSE last'.input IN
       a.kind = "map" /\ ~ViolatesSchema("mistakes_store", a.fields)

\* C17: a step that invokes mistakes_store with accepted arguments leaves the
\* store as it was with exactly one record {topic, detail} of the arguments
\* added at its end, whether or not an equal record is already there, and
\* returns; every other step (a search, a rejected store call, another tool,
\* an ask, a backend request or response) leaves the store unchanged.
C17_StoreAppendsExactlyOne ==
    [][IF StoreAccepted
       THEN LET f == last'.input.fields IN
            /\ memory' = Append(memory, [topic |-> f["topic"].s, detail |-> f["detail"].s])
            /\ last'.result.exc = "none"
            /\ last'.result.ran
       ELSE memory' = memory]_vars

\* the same record stored twice, and a rejected store call after it
C17_Witness ==
    /\ Len(memory) = 2
    /\ memory[1] = memory[2]
    /\ last.name = "mistakes_store"
    /\ ~last.result.ran
    /\ last.memory = memory

\* the registry's names and the tool registered last under a name
LastRegistered(log, n) ==
    log[Max({i \in 1..Len(log) : log[i].name = n})]
WasRegistered(log, n) == \E i \in 1..Len(log) : log[i].name = n

\* C7: a direct invoke under a name the registry does not hold raises
\* ToolNotFoundError, runs no tool body and changes neither the registry nor
\* the mistake memory; under a name it holds it never raises ToolNotFoundError.
C7_UnknownNameRaisesToolNotFound ==
    [][(last' # last /\ last'.op = "invoke") =>
          IF \E j \in 1..Len(tools) : tools[j].name = last'.name
          THEN last'.result.exc # "ToolNotFoundError"
          ELSE /\ last'.result.exc = "ToolNotFoundError"
               /\ ~last'.result.ran
               /\ tools' = tools
               /\ memory' = memory]_vars

C7_Witness ==
    /\ last.op = "invoke"
    /\ last.name = "echo"
    /\ last.result.exc = "ToolNotFoundError"
    /\ Len(tools) = 3
    /\ Len(memory) = 1

\* C8: a direct invoke dispatches to the tool registered last under the name,
\* the constructor's list counted; a register call always takes effect, and
\* the registry holds for every name ever registered the tool registered last.
C8_LastRegistrationWins ==
    [][/\ (last' # last /\ last'.op = "invoke" /\ WasRegistered(history.registered, last'.name)) =>
              last'.result.tool = LastRegistered(history.registered, last'.name)
       /\ \A i \in 1..Len(history'.registered) :
              \E j \in 1..Len(tools') :
                  tools'[j] = LastRegistered(history'.registered, history'.registered[i].name)]_vars

C8_Witness ==
    /\ last.op = "invoke"
    /\ last.name = "mistakes_store"
    /\ last.result.tool = StoreToolV2
    /\ last.result.exc = "ToolBodyError"
    /\ \E i \in 1..Len(history.registered) : history.registered[i] = MistakesStoreTool

\* C19 as stated: the validate command run on the registry build_registry
\* returns finds "echo" registered, gets a result, and does not end in
\* ToolNotFoundError.
C19_Original_ValidateSucceeds ==
    (last.op = "validate" /\ last.tools = BuildRegistry) =>
        /\ \E j \in 1..Len(last.tools) : last.tools[j].name = "echo"
        /\ last.result.exc = "none"
        /\ outcome.kind = "return"

\* the distinct names of a register log, each at the place of its first
\* registration
RECURSIVE FirstRegistrations(_)
FirstRegistrations(log) ==
    IF log = <<>> THEN <<>>
    ELSE LET rest == FirstRegistrations(SubSeq(log, 1, Len(log) - 1))
             n == log[Len(log)].name
         IN  IF \E k \in 1..Len(rest) : rest[k] = n THEN rest ELSE Append(rest, n)

\* C20: after the constructor's registrations and any register calls, the
\* listing of list_tools and the exported tool catalog hold one entry per
\* distinct registered name, in the order in which the names were first
\* registered, each with the description (and schema) of the tool registered
\* last under the name; a register call under a name already held changes
\* neither the number of entries nor the position of any name.
C20_ListingInFirstRegistrationOrder ==
    /\ [](LET names == FirstRegistrations(history.registered)
              listing == RegistryListTools(tools)
              catalog == RegistryAsAnthropicTools(tools)
          IN  /\ Len(listing) = Len(names)
              /\ Len(catalog) = Len(names)
              /\ \A k \in 1..Len(names) :
                    LET t == LastRegistered(history.registered, names[k]) IN
                    /\ listing[k] = [name |-> names[k], description |-> t.description]
                    /\ catalog[k].name = names[k]
                    /\ catalog[k].description = t.description
                    /\ catalog[k].input_schema = t.kind
              /\ \A j, k \in 1..Len(listing) : listing[j].name = listing[k].name => j = k)
    /\ [][(history'.registers # history.registers
           /\ WasRegistered(history.registered, history'.registered[Len(history'.registered)].name)) =>
             /\ Len(RegistryListTools(tools')) = Len(RegistryListTools(tools))
             /\ \A k \in 1..Len(tools) :
                   RegistryListTools(tools')[k].name = RegistryListTools(tools)[k].name]_vars

\* mistakes_store registered again by a register call: the entry in the middle
\* of the listing shows the new description
C20_Witness ==
    /\ history.registers >= 1
    /\ Len(history.registered) = 4
    /\ history.registered[4] = StoreToolV2
    /\ RegistryListTools(tools) =
          << [name |-> "basic_user_info", description |-> "Retrieve stored learner details"],
             [name |-> "mistakes_store", description |-> "Store, second version"],
             [name |-> "mistakes_search", description |-> "Search for similar concepts"] >>

=============================================================================
